---- MODULE Spec2Model ----
(***************************************************************************)
(* Data-access layer of the waste-bin backend: the Redis cache overlay     *)
(* (app/services/redis_service.py) and the generic repositories            *)
(* (app/repositories/base.py).                                             *)
(*                                                                         *)
(* Keys are sequences of tokens: the fixed words of a key prefix ("bin",   *)
(* "status", ...) are single tokens, the characters of a caller-supplied   *)
(* identifier are one token each.  Time advances in steps of TickSeconds.  *)
(***************************************************************************)
EXTENDS Integers, Sequences, FiniteSets, TLC

VARIABLES
    store,              \* the Redis key space: key -> [val, vol, ttl]
    decode_responses,   \* whether the injected client returns str (TRUE) or bytes keys
    call,               \* per caller: the cache-overlay call in flight (position, locals)
    last,               \* outcome of the call the latest step completed, if it completed one
    win,                \* history: per rate-limit key, the caller-side window clock
    returned,           \* history: per rate-limit key, values returned in this key lifetime
    dupReturn,          \* history: a value was returned twice in one key lifetime
    ttlSets,            \* history: per rate-limit key, EXPIRE commands applied in this lifetime
    written,            \* history: per bin, the status last written and its age
    rows,               \* the table of the relational repository's model
    id_seq,             \* the next value of the table's id sequence
    docs,               \* the collection of the document repository
    oid_seq,            \* the next ObjectId the driver generates
    repository,         \* the class of the repository object the callers hold
    created             \* history: per repository, id -> fields of the creates not yet
                        \* followed by an update or delete of that id

vars == <<store, decode_responses, call, last, win, returned, dupReturn, ttlSets, written,
          rows, id_seq, docs, oid_seq, repository, created>>
rateHistory == <<win, returned, dupReturn, ttlSets>>
cacheVars == <<store, decode_responses, call, win, returned, dupReturn, ttlSets, written>>
repoVars == <<rows, id_seq, docs, oid_seq, repository, created>>

-----------------------------------------------------------------------------
(* Program constants *)

default_ttl == 3600
MQTT_TTL == 300
ANALYTICS_TTL == 1800
DETECTION_TTL == 900
WS_TTL == 3600
CRITICAL_FILL == 80
DEFAULT_WINDOW == 60

(* Bounds of the model *)

TickSeconds == 900
MaxSeq == 2
MaxCount == 3
MaxLimit == 2

Procs == {"p1", "p2"}
Solo == {"p1"}
Faults == {"ok", "lost", "down"}   \* reply received / command applied, reply lost / not applied

RateKeys == {<<"rl", ":", "u">>, <<"rl", ":", "v">>}
HotKeys == {<<"rl", ":", "u">>}
Windows == {60, 1800}

BinIds == {<<"a">>, <<"b">>, <<"*">>, <<"[", "a", "]">>, <<"z", ":", "a">>}
PlainIds == {<<"a">>}
StatusIds == {<<"a">>}
ClearIds == {<<"a">>, <<"*">>}
ScanIds == {<<"a">>, <<"[", "a", "]">>, <<"z", ":", "a">>}
StatusVals == {[fill_level |-> <<"int", 90>>],
               [fill_level |-> <<"int", 80>>],
               [fill_level |-> <<"int", 95>>, last_detection |-> <<"datetime", 1>>]}
OneVal == {[fill_level |-> <<"int", 90>>]}
Topics == {<<"waste_bins", "/", "a", "/", "x">>}
DataTypes == {<<"d">>}
ConnectionIds == {<<"c">>}
UserIds == {"u1"}
Connections == {<<"c">>, <<"d">>}
BinTopics == {<<"waste_bins", "/", "a", "/", "x">>, <<"waste_bins", "/", "b", "/", "x">>}
RecentIds == {<<"a">>, <<"*">>}
TwoBins == {<<"a">>, <<"b">>}
Limits == 1 .. MaxLimit

-----------------------------------------------------------------------------
(* The Redis commands the service uses *)

NoEntries == [k \in {} |-> [val |-> <<"int", 0>>, vol |-> FALSE, ttl |-> 0]]

IsInt(st, k) == k \in DOMAIN st /\ st[k].val[1] = "int"

\* INCR key: a missing key counts from 0 and gets no expiry; an expiry is kept
RedisIncr(st, k) ==
    IF k \in DOMAIN st
    THEN [st EXCEPT ![k].val = <<"int", @[2] + 1>>]
    ELSE [x \in DOMAIN st \cup {k} |->
            IF x = k THEN [val |-> <<"int", 1>>, vol |-> FALSE, ttl |-> 0] ELSE st[x]]

\* a plausible slip: the window is opened with SETEX key window 1 instead of EXPIRE
RedisExpire_setex(st, k, w) ==
    [x \in DOMAIN st \cup {k} |->
        IF x = k THEN [val |-> <<"int", 1>>, vol |-> TRUE, ttl |-> w] ELSE st[x]]

\* EXPIRE key seconds: no effect on a missing key
RedisExpire(st, k, w) ==
    IF k \in DOMAIN st THEN [st EXCEPT ![k].vol = TRUE, ![k].ttl = w] ELSE st

\* SETEX key seconds value
RedisSetex_noexpiry(st, k, w, v) ==
    [x \in DOMAIN st \cup {k} |->
        IF x = k THEN [val |-> v, vol |-> FALSE, ttl |-> 0] ELSE st[x]]

RedisSetex(st, k, w, v) ==
    [x \in DOMAIN st \cup {k} |->
        IF x = k THEN [val |-> v, vol |-> TRUE, ttl |-> w] ELSE st[x]]

\* FLUSHDB in place of DEL
RedisDelete_all(st, ks) == NoEntries

\* DEL key [key ...]
RedisDelete(st, ks) == [x \in DOMAIN st \ ks |-> st[x]]

\* the store d seconds later: volatile keys whose time is up are gone
Elapse(st, d) ==
    LET live == {k \in DOMAIN st : ~st[k].vol \/ st[k].ttl > d}
    IN  [k \in live |-> IF st[k].vol THEN [st[k] EXCEPT !.ttl = @ - d] ELSE st[k]]

-----------------------------------------------------------------------------
(* Key names *)

StatusKey(bin_id) == <<"bin", ":", "status", ":">> \o bin_id
DetectionKey(bin_id) == <<"detection", ":">> \o bin_id
MessageKey(topic) == <<"mqtt", ":", "message", ":">> \o topic
AnalyticsKey(data_type) == <<"analytics", ":">> \o data_type
\* increment_rate_limit takes its key from the caller as it is
ForeignKeys == {StatusKey(<<"a">>)}
CounterKeys == RateKeys \cup ForeignKeys
ConnectionKey(connection_id) == <<"ws", ":", "connection", ":">> \o connection_id

\* the topic prefix of a bin, and the pattern the service scans for its messages
BinTopicPrefix(bin_id) == <<"waste_bins", "/">> \o bin_id \o <<"/">>
MessagePattern(bin_id) == MessageKey(BinTopicPrefix(bin_id) \o <<"*">>)
AllStatusPattern == <<"bin", ":", "status", ":", "*">>

\* the three patterns of clear_bin_cache, in the order of its list
ClearPattern(bin_id, i) ==
    CASE i = 1 -> StatusKey(bin_id)
      [] i = 2 -> DetectionKey(bin_id)
      [] OTHER -> MessagePattern(bin_id)

IsPrefix(pre, s) == Len(pre) <= Len(s) /\ SubSeq(s, 1, Len(pre)) = pre

\* position of the first "]" of pat at or after i, Len(pat) + 1 when there is none
RECURSIVE ClassEnd(_, _)
ClassEnd(pat, i) ==
    IF i > Len(pat) \/ pat[i] = "]" THEN i ELSE ClassEnd(pat, i + 1)

\* Redis glob matching of KEYS: * any run, ? any one character, [..] one
\* character of the set, anything else itself
RECURSIVE GlobMatch(_, _)
GlobMatch(pat, s) ==
    IF pat = <<>> THEN s = <<>>
    ELSE IF pat[1] = "*"
    THEN GlobMatch(Tail(pat), s) \/ (s # <<>> /\ GlobMatch(pat, Tail(s)))
    ELSE IF s = <<>> THEN FALSE
    ELSE IF pat[1] = "?" THEN GlobMatch(Tail(pat), Tail(s))
    ELSE IF pat[1] = "["
    THEN LET j == ClassEnd(pat, 2)
         IN  /\ \E i \in 2 .. (j - 1) : pat[i] = s[1]
             /\ GlobMatch(SubSeq(pat, j + 1, Len(pat)), Tail(s))
    ELSE pat[1] = s[1] /\ GlobMatch(Tail(pat), Tail(s))

\* KEYS pattern
RedisKeys(st, pat) == {k \in DOMAIN st : GlobMatch(pat, k)}

\* key.split(":")[-1]
RECURSIVE SplitLast(_)
SplitLast(key) ==
    IF key = <<>> THEN <<>>
    ELSE IF key[Len(key)] = ":" THEN <<>>
    ELSE SplitLast(SubSeq(key, 1, Len(key) - 1)) \o <<key[Len(key)]>>

-----------------------------------------------------------------------------
(* Values: a Python dict is a record of tagged fields, <<"int", n>>,         *)
(* <<"str", n>> (the text of n) or <<"datetime", n>>; a stored Redis string *)
(* is <<"json", doc>>, <<"int", n>> or <<"raw", text>>.                    *)

\* json.dumps(data, default=str): what JSON cannot hold is replaced by its str()
json_dumps(data) ==
    <<"json", [f \in DOMAIN data |->
                 IF data[f][1] = "datetime" THEN <<"str", data[f][2]>> ELSE data[f]]>>

\* json.loads raises on text that is not JSON
JsonDecodable(raw) == raw[1] \in {"json", "int"}

\* json.loads(raw) of decodable text
json_loads(raw) == IF raw[1] = "json" THEN <<"dict", raw[2]>> ELSE <<"int", raw[2]>>

None == <<"None">>
PyInt(n) == <<"int", n>>
PyDict(data) == <<"dict", data>>
PyList(items) == <<"list", items>>

\* "cached = await self.redis.get(key); if cached: return json.loads(cached);
\* return None", with the except branch's None for text that does not decode
CachedValue(st, key) ==
    IF key \in DOMAIN st /\ JsonDecodable(st[key].val) THEN json_loads(st[key].val)
    ELSE None

-----------------------------------------------------------------------------
(* Callers *)

Idle == [op |-> "idle", pc |-> "idle", key |-> <<>>, window |-> 0, current |-> 0,
         expect |-> 0, keys |-> {}, acc |-> <<>>, pat |-> 0, clean |-> TRUE,
         hadData |-> FALSE, changed |-> FALSE]

NoOutcome == [op |-> "none", arg |-> <<>>, kind |-> "none", val |-> None,
              failed |-> FALSE, expect |-> 0, clean |-> TRUE, note |-> {},
              hadData |-> FALSE, changed |-> FALSE]

\* a method returned val; failed: a backend command of the call raised
Outcome(op, arg, val, failed) ==
    [NoOutcome EXCEPT !.op = op, !.arg = arg, !.kind = "return", !.val = val,
                      !.failed = failed]

\* an except branch that re-raises instead of returning
Except_reraise(op, arg, miss) ==
    [NoOutcome EXCEPT !.op = op, !.arg = arg, !.kind = "raise", !.failed = TRUE]

\* "except Exception as e: logger.error(...); return <miss>"
Except(op, arg, miss) == Outcome(op, arg, miss, TRUE)

\* what a reader of the key space can see: keys and values, not remaining TTLs
Visible(st) == [k \in DOMAIN st |-> st[k].val]

\* the calls in flight after caller p moved to c and the store became st: a call
\* of another caller that overlaps a visible change is no longer undisturbed
Others(p, c, st) ==
    [q \in Procs |->
        IF q = p THEN c
        ELSE IF call[q].op # "idle" /\ Visible(st) # Visible(store)
        THEN [call[q] EXCEPT !.clean = FALSE]
        ELSE call[q]]

Unwritten == [set |-> FALSE, v |-> [fill_level |-> <<"int", 0>>], age |-> 0, touched |-> FALSE]
NoEvent == [kind |-> "none", id |-> <<>>, v |-> Unwritten.v]
StatusEvent(bin_id, v) == [kind |-> "status", id |-> bin_id, v |-> v]
ClearEvent(bin_id) == [kind |-> "clear", id |-> bin_id, v |-> Unwritten.v]

\* the history of status writes after a step that left the store as st
Track(st, ev) ==
    [e \in BinIds |->
        IF ev.kind = "status" /\ ev.id = e
        THEN [set |-> TRUE, v |-> ev.v, age |-> 0, touched |-> FALSE]
        ELSE IF ev.kind = "clear" /\ ev.id = e THEN Unwritten
        ELSE IF /\ written[e].set /\ ~written[e].touched /\ written[e].age < default_ttl
                /\ \/ StatusKey(e) \notin DOMAIN st
                   \/ /\ StatusKey(e) \in DOMAIN store
                      /\ st[StatusKey(e)].val # store[StatusKey(e)].val
        THEN [written[e] EXCEPT !.touched = TRUE]
        ELSE written[e]]

\* caller p's call completes with outcome out, leaving the store as st
Finish(p, out, st, ev) ==
    /\ store' = st
    /\ last' = out
    /\ call' = Others(p, Idle, st)
    /\ written' = Track(st, ev)
    /\ UNCHANGED <<decode_responses, repoVars>>

\* caller p's call goes on as c (it is at its next await), the store is st
Continue(p, c, st, ev) ==
    /\ store' = st
    /\ call' = Others(p, c, st)
    /\ last' = NoOutcome
    /\ written' = Track(st, ev)
    /\ UNCHANGED <<decode_responses, repoVars>>

NoWindow == [n |-> 0, age |-> 0, w |-> 0, gen |-> 0]

\* what the caller-side clock says the next call on k must return
Expected(k) ==
    IF win[k].n = 0 \/ win[k].age >= win[k].w THEN 1 ELSE win[k].n + 1

\* the caller-side clock after a call on k returned r with window w
WinAfterReturn(k, r, w) ==
    IF r = 1 THEN [n |-> 1, age |-> 0, w |-> w, gen |-> IF win[k].gen < 2 THEN win[k].gen + 1 ELSE 2]
    ELSE [win[k] EXCEPT !.n = r]

Count(st, k) == IF IsInt(st, k) THEN st[k].val[2] ELSE 0

-----------------------------------------------------------------------------
(* increment_rate_limit *)

\* whether increment_rate_limit goes on to EXPIRE after INCR returned current
NeedsExpire_always(current) == TRUE

NeedsExpire(current) == current = 1

\* the history of key k after a successful call returned r with window w
NoteReturn(k, r, w) ==
    /\ returned' = [returned EXCEPT ![k] = @ \cup {r}]
    /\ dupReturn' = (dupReturn \/ r \in returned[k])
    /\ win' = [win EXCEPT ![k] = WinAfterReturn(k, r, w)]

RateOutcome(k, current, expect) ==
    [Outcome("increment_rate_limit", k, PyInt(current), FALSE) EXCEPT !.expect = expect]

\* the call up to and including "current = await self.redis.incr(key)"; when
\* current is not 1 the call returns in the same step
IncrCall(p, k, w, f) ==
    /\ call[p].op = "idle"
    /\ Count(store, k) < MaxCount
    /\ IF f = "down" \/ (k \in DOMAIN store /\ ~IsInt(store, k))
       THEN /\ Finish(p, Except("increment_rate_limit", k, PyInt(0)), store, NoEvent)
            /\ UNCHANGED <<win, returned, dupReturn>>
       ELSE LET st == RedisIncr(store, k)
                current == st[k].val[2]
            IN  IF f = "lost"
                THEN /\ Finish(p, Except("increment_rate_limit", k, PyInt(0)), st, NoEvent)
                     /\ UNCHANGED <<win, returned, dupReturn>>
                ELSE IF NeedsExpire(current)
                THEN /\ Continue(p, [Idle EXCEPT !.op = "increment_rate_limit",
                                        !.pc = "expire", !.key = k, !.window = w,
                                        !.current = current, !.expect = Expected(k)],
                                 st, NoEvent)
                     /\ UNCHANGED <<win, returned, dupReturn>>
                ELSE /\ Finish(p, RateOutcome(k, current, Expected(k)), st, NoEvent)
                     /\ NoteReturn(k, current, w)
    /\ UNCHANGED ttlSets

\* "await self.redis.expire(key, window)" and "return current"
ExpireStep(p, f) ==
    /\ call[p].pc = "expire"
    /\ LET k == call[p].key
           w == call[p].window
           st == IF f = "down" THEN store ELSE RedisExpire(store, k, w)
       IN  /\ ttlSets' = IF f = "down" \/ k \notin DOMAIN store THEN ttlSets
                         ELSE [ttlSets EXCEPT ![k] = @ + 1]
           /\ IF f = "ok"
              THEN /\ Finish(p, RateOutcome(k, call[p].current, call[p].expect), st, NoEvent)
                   /\ NoteReturn(k, call[p].current, w)
              ELSE /\ Finish(p, Except("increment_rate_limit", k, PyInt(0)), st, NoEvent)
                   /\ UNCHANGED <<win, returned, dupReturn>>

\* the caller gives up a pending call (request timeout): the coroutine is
\* cancelled at its await and nothing after it runs
Abandon(p) ==
    /\ call[p].op # "idle"
    /\ Finish(p, [NoOutcome EXCEPT !.op = call[p].op, !.arg = call[p].key,
                                   !.kind = "cancelled"], store, NoEvent)
    /\ UNCHANGED rateHistory

\* TickSeconds pass; Redis drops the keys whose expiry is reached
Tick ==
    /\ \E k \in DOMAIN store : store[k].vol
    /\ store' = Elapse(store, TickSeconds)
    /\ call' = Others("clock", Idle, store')
    /\ win' = [k \in CounterKeys |->
                 IF win[k].n > 0 /\ win[k].age < win[k].w
                 THEN [win[k] EXCEPT !.age = @ + TickSeconds] ELSE win[k]]
    /\ returned' = [k \in CounterKeys |-> IF k \in DOMAIN store' THEN returned[k] ELSE {}]
    /\ ttlSets' = [k \in CounterKeys |-> IF k \in DOMAIN store' THEN ttlSets[k] ELSE 0]
    /\ written' = [e \in BinIds |->
                     IF written[e].set /\ written[e].age < default_ttl
                     THEN [written[e] EXCEPT !.age =
                             IF @ + TickSeconds < default_ttl THEN @ + TickSeconds
                             ELSE default_ttl]
                     ELSE written[e]]
    /\ last' = NoOutcome
    /\ UNCHANGED <<decode_responses, dupReturn, repoVars>>

\* another client of the same Redis leaves text that is not JSON under key k
ForeignWrite(k) ==
    /\ store' = RedisSetex(store, k, default_ttl, <<"raw", "x">>)
    /\ call' = Others("foreign", Idle, store')
    /\ last' = NoOutcome
    /\ written' = Track(store', NoEvent)
    /\ UNCHANGED <<decode_responses, rateHistory, repoVars>>

-----------------------------------------------------------------------------
(* The single-command methods *)

\* "await self.redis.setex(key, ttl, text)" inside try/except, then return
SetexCall(p, op, arg, key, ttl, text, f, ev) ==
    /\ call[p].op = "idle"
    /\ IF f = "ok"
       THEN Finish(p, Outcome(op, arg, None, FALSE), RedisSetex(store, key, ttl, text), ev)
       ELSE IF f = "lost"
       THEN Finish(p, Except(op, arg, None), RedisSetex(store, key, ttl, text), ev)
       ELSE Finish(p, Except(op, arg, None), store, NoEvent)
    /\ UNCHANGED rateHistory

\* "cached_data = await self.redis.get(key)" ... "return None"
GetCall(p, op, arg, key, f) ==
    /\ call[p].op = "idle"
    /\ IF f = "ok"
       THEN Finish(p, Outcome(op, arg, CachedValue(store, key), FALSE), store, NoEvent)
       ELSE Finish(p, Except(op, arg, None), store, NoEvent)
    /\ UNCHANGED rateHistory

cache_bin_status(p, bin_id, bin_data, f) ==
    SetexCall(p, "cache_bin_status", bin_id, StatusKey(bin_id), default_ttl,
              json_dumps(bin_data), f, StatusEvent(bin_id, bin_data))

get_cached_bin_status(p, bin_id, f) ==
    GetCall(p, "get_cached_bin_status", bin_id, StatusKey(bin_id), f)

cache_mqtt_message(p, topic, message, f) ==
    SetexCall(p, "cache_mqtt_message", topic, MessageKey(topic), MQTT_TTL,
              json_dumps(message), f, NoEvent)

cache_analytics_data(p, data_type, data, f) ==
    SetexCall(p, "cache_analytics_data", data_type, AnalyticsKey(data_type),
              ANALYTICS_TTL, json_dumps(data), f, NoEvent)

get_cached_analytics(p, data_type, f) ==
    GetCall(p, "get_cached_analytics", data_type, AnalyticsKey(data_type), f)

cache_detection_results(p, bin_id, results, f) ==
    SetexCall(p, "cache_detection_results", bin_id, DetectionKey(bin_id),
              DETECTION_TTL, json_dumps(results), f, NoEvent)

get_cached_detection(p, bin_id, f) ==
    GetCall(p, "get_cached_detection", bin_id, DetectionKey(bin_id), f)

\* the user id is stored as it is, not as JSON
set_websocket_connection(p, connection_id, user_id, f) ==
    SetexCall(p, "set_websocket_connection", connection_id,
              ConnectionKey(connection_id), WS_TTL, <<"raw", user_id>>, f, NoEvent)

remove_websocket_connection(p, connection_id, f) ==
    /\ call[p].op = "idle"
    /\ IF f = "ok"
       THEN Finish(p, [Outcome("remove_websocket_connection", connection_id, None, FALSE)
                          EXCEPT !.changed = ConnectionKey(connection_id) \in DOMAIN store],
                   RedisDelete(store, {ConnectionKey(connection_id)}), NoEvent)
       ELSE IF f = "lost"
       THEN Finish(p, [Except("remove_websocket_connection", connection_id, None)
                          EXCEPT !.changed = ConnectionKey(connection_id) \in DOMAIN store],
                   RedisDelete(store, {ConnectionKey(connection_id)}), NoEvent)
       ELSE Finish(p, Except("remove_websocket_connection", connection_id, None),
                   store, NoEvent)
    /\ UNCHANGED rateHistory

-----------------------------------------------------------------------------
(* clear_bin_cache *)

\* the keys that hold cached data of bin_id: its status key, its detection
\* key and the message keys under its topic prefix
EntityKeys(st, bin_id) ==
    {k \in DOMAIN st : \/ k = StatusKey(bin_id)
                       \/ k = DetectionKey(bin_id)
                       \/ IsPrefix(MessageKey(BinTopicPrefix(bin_id)), k)}

ClearOutcome(c, failed, st) ==
    [(IF failed THEN Except("clear_bin_cache", c.key, None)
                ELSE Outcome("clear_bin_cache", c.key, None, FALSE))
        EXCEPT !.clean = c.clean, !.note = EntityKeys(st, c.key),
               !.hadData = c.hadData, !.changed = c.changed]

\* "keys = await self.redis.keys(pattern)" for pattern number c.pat, and the
\* "if keys:" that follows; after the last pattern the method returns
ClearScan(p, c, f) ==
    IF f # "ok"
    THEN Finish(p, ClearOutcome(c, TRUE, store), store, ClearEvent(c.key))
    ELSE LET ks == RedisKeys(store, ClearPattern(c.key, c.pat))
         IN  IF ks # {}
             THEN Continue(p, [c EXCEPT !.pc = "delete", !.keys = ks], store,
                           ClearEvent(c.key))
             ELSE IF c.pat = 3
             THEN Finish(p, ClearOutcome(c, FALSE, store), store, ClearEvent(c.key))
             ELSE Continue(p, [c EXCEPT !.pc = "keys", !.pat = @ + 1], store,
                           ClearEvent(c.key))

\* the call up to its first await
ClearCall(p, bin_id, f) ==
    /\ call[p].op = "idle"
    /\ ClearScan(p, [Idle EXCEPT !.op = "clear_bin_cache", !.pc = "keys",
                        !.key = bin_id, !.pat = 1,
                        !.hadData = (EntityKeys(store, bin_id) # {})], f)
    /\ UNCHANGED rateHistory

\* the next turn of "for pattern in patterns"
ClearKeys(p, f) ==
    /\ call[p].op = "clear_bin_cache"
    /\ call[p].pc = "keys"
    /\ ClearScan(p, call[p], f)
    /\ UNCHANGED rateHistory

\* "await self.redis.delete(*keys)"
ClearDelete(p, f) ==
    /\ call[p].op = "clear_bin_cache"
    /\ call[p].pc = "delete"
    /\ LET c == call[p]
           st == IF f = "down" THEN store ELSE RedisDelete(store, c.keys)
           c1 == [c EXCEPT !.keys = {},
                           !.changed = (@ \/ DOMAIN st # DOMAIN store)]
       IN  IF f # "ok"
           THEN Finish(p, ClearOutcome(c1, TRUE, st), st, ClearEvent(c.key))
           ELSE IF c.pat = 3
           THEN Finish(p, ClearOutcome(c1, FALSE, st), st, ClearEvent(c.key))
           ELSE Continue(p, [c1 EXCEPT !.pc = "keys", !.pat = @ + 1], st,
                         ClearEvent(c.key))
    /\ UNCHANGED rateHistory

-----------------------------------------------------------------------------
(* get_all_critical_bins *)

\* the fill level a stored status text carries, as bin_data.get("fill_level", 0)
FillLevel(doc) == IF "fill_level" \in DOMAIN doc THEN doc.fill_level ELSE <<"int", 0>>

\* the bins that have a cached status with a fill level above the threshold
CriticalTruth(st) ==
    {e \in BinIds : /\ StatusKey(e) \in DOMAIN st
                    /\ st[StatusKey(e)].val[1] = "json"
                    /\ FillLevel(st[StatusKey(e)].val[2])[1] = "int"
                    /\ FillLevel(st[StatusKey(e)].val[2])[2] > CRITICAL_FILL}

\* one turn of "for key in keys": [ok |-> FALSE] when a statement of the body
\* raises, otherwise the list after the turn
CriticalVisit(st, decoded, key, acc) ==
    IF key \notin DOMAIN st THEN [ok |-> TRUE, acc |-> acc]
    ELSE IF ~JsonDecodable(st[key].val) THEN [ok |-> FALSE, acc |-> acc]
    ELSE LET bin_data == json_loads(st[key].val)
         IN  IF bin_data[1] # "dict" THEN [ok |-> FALSE, acc |-> acc]
             ELSE IF FillLevel(bin_data[2])[1] # "int" THEN [ok |-> FALSE, acc |-> acc]
             ELSE IF FillLevel(bin_data[2])[2] > CRITICAL_FILL
             THEN (IF decoded THEN [ok |-> TRUE, acc |-> Append(acc, SplitLast(key))]
                              ELSE [ok |-> FALSE, acc |-> acc])
             ELSE [ok |-> TRUE, acc |-> acc]

CriticalOutcome(c, items, failed, st) ==
    [(IF failed THEN Except("get_all_critical_bins", <<>>, PyList(<<>>))
                ELSE Outcome("get_all_critical_bins", <<>>, PyList(items), FALSE))
        EXCEPT !.clean = c.clean, !.note = CriticalTruth(st)]

\* the call up to "keys = await self.redis.keys("bin:status:*")"
CriticalCall(p, f) ==
    /\ call[p].op = "idle"
    /\ IF f # "ok"
       THEN Finish(p, CriticalOutcome(Idle, <<>>, TRUE, store), store, NoEvent)
       ELSE LET ks == RedisKeys(store, AllStatusPattern)
            IN  IF ks = {}
                THEN Finish(p, CriticalOutcome(Idle, <<>>, FALSE, store), store, NoEvent)
                ELSE Continue(p, [Idle EXCEPT !.op = "get_all_critical_bins",
                                              !.pc = "get", !.keys = ks],
                              store, NoEvent)
    /\ UNCHANGED rateHistory

\* one turn of the loop, on key k of the scan result (KEYS gives no order)
CriticalGet(p, k, f) ==
    /\ call[p].op = "get_all_critical_bins"
    /\ k \in call[p].keys
    /\ LET c == call[p]
           r == CriticalVisit(store, decode_responses, k, c.acc)
       IN  IF f # "ok"
           THEN Finish(p, CriticalOutcome(c, <<>>, TRUE, store), store, NoEvent)
           ELSE IF ~r.ok
           THEN Finish(p, CriticalOutcome(c, <<>>, FALSE, store), store, NoEvent)
           ELSE IF c.keys = {k}
           THEN Finish(p, CriticalOutcome(c, r.acc, FALSE, store), store, NoEvent)
           ELSE Continue(p, [c EXCEPT !.keys = @ \ {k}, !.acc = r.acc], store, NoEvent)
    /\ UNCHANGED rateHistory

-----------------------------------------------------------------------------
(* get_recent_mqtt_messages *)

RecentOutcome(c, items, failed) ==
    [(IF failed THEN Except("get_recent_mqtt_messages", c.key, PyList(<<>>))
                ELSE Outcome("get_recent_mqtt_messages", c.key, PyList(items), FALSE))
        EXCEPT !.clean = c.clean, !.note = {c.current}]

\* the call up to "keys = await self.redis.keys(key_pattern)"; keys[:limit]
\* is any limit of the keys found (the call keeps its limit in current)
RecentCall(p, bin_id, limit, f) ==
    /\ call[p].op = "idle"
    /\ LET c == [Idle EXCEPT !.op = "get_recent_mqtt_messages", !.pc = "get",
                             !.key = bin_id, !.current = limit]
           ks == RedisKeys(store, MessagePattern(bin_id))
       IN  IF f # "ok"
           THEN Finish(p, RecentOutcome(c, <<>>, TRUE), store, NoEvent)
           ELSE IF ks = {}
           THEN Finish(p, RecentOutcome(c, <<>>, FALSE), store, NoEvent)
           ELSE \E some \in SUBSET ks :
                   /\ Cardinality(some) = (IF limit < Cardinality(ks) THEN limit
                                           ELSE Cardinality(ks))
                   /\ Continue(p, [c EXCEPT !.keys = some], store, NoEvent)
    /\ UNCHANGED rateHistory

\* one turn of "for key in keys[:limit]"
RecentGet(p, k, f) ==
    /\ call[p].op = "get_recent_mqtt_messages"
    /\ k \in call[p].keys
    /\ LET c == call[p]
           acc == IF k \in DOMAIN store /\ JsonDecodable(store[k].val)
                  THEN Append(c.acc, json_loads(store[k].val)) ELSE c.acc
       IN  IF f # "ok"
           THEN Finish(p, RecentOutcome(c, <<>>, TRUE), store, NoEvent)
           ELSE IF k \in DOMAIN store /\ ~JsonDecodable(store[k].val)
           THEN Finish(p, RecentOutcome(c, <<>>, FALSE), store, NoEvent)
           ELSE IF c.keys = {k}
           THEN Finish(p, RecentOutcome(c, acc, FALSE), store, NoEvent)
           ELSE Continue(p, [c EXCEPT !.keys = @ \ {k}, !.acc = acc], store, NoEvent)
    /\ UNCHANGED rateHistory

-----------------------------------------------------------------------------
(* Repositories: BaseRepository over the users table, MongoDBBaseRepository *)
(* over one collection.  A row or a document is a record of its fields.    *)

\* datetime.utcnow is a time of the statement that calls it: the time of the
\* INSERT, or the later time of an UPDATE
Columns == {"id", "username", "role", "is_active", "updated_at"}
Defaults == [role |-> "operator", is_active |-> TRUE, updated_at |-> <<"utcnow", "insert">>]
OnUpdate == [updated_at |-> <<"utcnow", "update">>]
Usernames == {"u1", "u2"}
RowIds == 1 .. MaxSeq
DocIds == {<<"oid", n>> : n \in 1 .. MaxSeq} \cup {<<"str", 1>>}

\* obj_data of create
RowInputs ==
    {[username |-> u] : u \in Usernames}
        \cup {[username |-> "u1", role |-> "admin", is_active |-> FALSE],
              [username |-> "u2", id |-> 2],
              [role |-> "admin"],
              [username |-> "u2", bogus |-> "x"]}
DocInputs ==
    {[bin_id |-> "a"], [bin_id |-> "b", fill_level |-> 90],
     [_id |-> <<"str", 1>>, bin_id |-> "a"]}

\* obj_data of update
RowChanges == {[role |-> "viewer"], [username |-> "u1"], [id |-> 1], [bogus |-> "x"]}
DocChanges == {[fill_level |-> 50], [_id |-> <<"str", 1>>, bin_id |-> "c"]}

PyRow(r) == <<"row", r>>
PyBool(b) == <<"bool", b>>

\* the call raised; failed: a backend command of the call failed
Raised(op, arg, failed) ==
    [NoOutcome EXCEPT !.op = op, !.arg = arg, !.kind = "raise", !.failed = failed]

\* history: the records before the call and the obj_data it was given
Noted(out, obj_data) ==
    [out EXCEPT !.note = [before |-> IF repository = "relational" THEN rows ELSE docs,
                          obj_data |-> obj_data]]

InitRepositories ==
    /\ rows = {}
    /\ id_seq = 1
    /\ docs = {}
    /\ oid_seq = 1
    /\ created = [relational |-> <<>>, document |-> <<>>]
    /\ repository = "relational"

\* a BaseRepository over the users table or a MongoDBBaseRepository
InitRepo ==
    /\ store = NoEntries
    /\ decode_responses = FALSE
    /\ call = [p \in Procs |-> Idle]
    /\ last = NoOutcome
    /\ win = [k \in CounterKeys |-> NoWindow]
    /\ returned = [k \in CounterKeys |-> {}]
    /\ dupReturn = FALSE
    /\ ttlSets = [k \in CounterKeys |-> 0]
    /\ written = [e \in BinIds |-> Unwritten]
    /\ rows = {}
    /\ id_seq = 1
    /\ docs = {}
    /\ oid_seq = 1
    /\ created = [relational |-> <<>>, document |-> <<>>]
    /\ repository \in {"relational", "document"}

\* history: the creates a call on id leaves standing
Forget(repo, id) ==
    [created EXCEPT ![repo] = [i \in DOMAIN @ \ {id} |-> @[i]]]
Remember(repo, id, obj_data) ==
    [created EXCEPT ![repo] = (id :> obj_data) @@ [i \in DOMAIN @ \ {id} |-> @[i]]]

\* the INSERT takes the column default where obj_data has the supplied value
ApplyDefaults_override(obj_data) == Defaults @@ obj_data

\* the INSERT takes the column default for each column obj_data leaves out
ApplyDefaults(obj_data) == obj_data @@ Defaults

\* the row "self.model(**obj_data)" becomes at the INSERT: the id comes from
\* the sequence unless obj_data has one
NewRow(obj_data) ==
    LET withId == IF "id" \in DOMAIN obj_data THEN obj_data ELSE obj_data @@ [id |-> id_seq]
    IN  ApplyDefaults(withId)

\* NOT NULL on username, the primary key, UNIQUE on username
Violates(r, others) ==
    \/ "username" \notin DOMAIN r
    \/ \E o \in others : o.id = r.id \/ o.username = r.username

\* "select(self.model).where(self.model.id == id)" and scalar_one_or_none()
SelectById(table, id) ==
    IF \E r \in table : r.id = id THEN PyRow(CHOOSE r \in table : r.id = id) ELSE None

\* BaseRepository.create; f = "lost": the commit went through, refresh failed
RowCreate(obj_data, f) ==
    /\ repository = "relational"
    /\ id_seq <= MaxSeq
    /\ IF ~(DOMAIN obj_data \subseteq Columns) \/ f = "down"
       THEN /\ last' = Noted(Raised("create", <<"relational">>, f = "down"), obj_data)
            /\ UNCHANGED <<rows, id_seq, created>>
       ELSE LET r == NewRow(obj_data)
            IN  /\ id_seq' = IF "id" \in DOMAIN obj_data THEN id_seq ELSE id_seq + 1
                /\ IF Violates(r, rows)
                   THEN /\ last' = Noted(Raised("create", <<"relational">>, FALSE), obj_data)
                        /\ UNCHANGED <<rows, created>>
                   ELSE /\ rows' = rows \cup {r}
                        /\ IF f = "lost"
                           THEN /\ last' = Noted(Raised("create", <<"relational">>, TRUE), obj_data)
                                /\ UNCHANGED created
                           ELSE /\ last' = Noted(Outcome("create", <<"relational", r.id>>,
                                                   PyRow(r), FALSE), obj_data)
                                /\ created' = Remember("relational", r.id, obj_data)
    /\ UNCHANGED <<cacheVars, docs, oid_seq, repository>>

\* BaseRepository.get_by_id
RowGetById(id, f) ==
    /\ repository = "relational"
    /\ last' = Noted(Outcome("get_by_id", <<"relational", id>>,
                       IF f = "ok" THEN SelectById(rows, id) ELSE None, f # "ok"), <<>>)
    /\ UNCHANGED <<cacheVars, repoVars>>

\* BaseRepository.update; f = "lost": the commit went through, its reply did not
RowUpdate(id, obj_data, f) ==
    /\ repository = "relational"
    /\ created' = Forget("relational", id)
    /\ IF ~(DOMAIN obj_data \subseteq Columns) \/ f = "down" \/ ~\E r \in rows : r.id = id
       THEN /\ last' = Noted(Outcome("update", <<"relational", id>>, None,
                               f # "ok" /\ DOMAIN obj_data \subseteq Columns), obj_data)
            /\ UNCHANGED rows
       ELSE LET old == CHOOSE r \in rows : r.id = id
                new == obj_data @@ OnUpdate @@ old
            IN  IF Violates(new, rows \ {old})
                THEN /\ last' = Noted(Outcome("update", <<"relational", id>>, None, FALSE), obj_data)
                     /\ UNCHANGED rows
                ELSE /\ rows' = (rows \ {old}) \cup {new}
                     /\ last' = Noted(Outcome("update", <<"relational", id>>,
                                        IF f = "ok" THEN PyRow(new) ELSE None, f # "ok"), obj_data)
    /\ UNCHANGED <<cacheVars, id_seq, docs, oid_seq, repository>>

\* BaseRepository.delete
RowDelete(id, f) ==
    /\ repository = "relational"
    /\ created' = Forget("relational", id)
    /\ rows' = IF f = "down" THEN rows ELSE {r \in rows : r.id # id}
    /\ last' = Noted(Outcome("delete", <<"relational", id>>,
                       PyBool(f = "ok" /\ \E r \in rows : r.id = id), f # "ok"), <<>>)
    /\ UNCHANGED <<cacheVars, id_seq, docs, oid_seq, repository>>

\* insert_one gives the document an ObjectId unless obj_data has an _id
NewDocument(obj_data) ==
    IF "_id" \in DOMAIN obj_data THEN obj_data ELSE obj_data @@ [_id |-> <<"oid", oid_seq>>]

\* "self.collection.find_one({"_id": id})"
FindOne(coll, id) ==
    IF \E d \in coll : d._id = id THEN PyDict(CHOOSE d \in coll : d._id = id) ELSE None

\* MongoDBBaseRepository.create; f = "lost": inserted, the reply did not arrive
DocCreate(obj_data, f) ==
    /\ repository = "document"
    /\ oid_seq <= MaxSeq
    /\ LET d == NewDocument(obj_data)
       IN  /\ oid_seq' = IF "_id" \in DOMAIN obj_data THEN oid_seq ELSE oid_seq + 1
           /\ IF f = "down" \/ \E o \in docs : o._id = d._id
              THEN /\ last' = Noted(Raised("create", <<"document">>, f = "down"), obj_data)
                   /\ UNCHANGED <<docs, created>>
              ELSE /\ docs' = docs \cup {d}
                   /\ IF f = "lost"
                      THEN /\ last' = Noted(Raised("create", <<"document">>, TRUE), obj_data)
                           /\ UNCHANGED created
                      ELSE /\ last' = Noted(Outcome("create", <<"document", d._id>>,
                                              PyDict(d), FALSE), obj_data)
                           /\ created' = Remember("document", d._id, obj_data)
    /\ UNCHANGED <<cacheVars, rows, id_seq, repository>>

\* MongoDBBaseRepository.get_by_id
DocGetById(id, f) ==
    /\ repository = "document"
    /\ last' = Noted(Outcome("get_by_id", <<"document", id>>,
                       IF f = "ok" THEN FindOne(docs, id) ELSE None, f # "ok"), <<>>)
    /\ UNCHANGED <<cacheVars, repoVars>>

DocUpdate_upsert(id, obj_data, f) ==
    /\ repository = "document"
    /\ created' = Forget("document", id)
    /\ IF f = "down" \/ ("_id" \in DOMAIN obj_data /\ obj_data._id # id)
       THEN /\ last' = Noted(Outcome("update", <<"document", id>>, None, f # "ok"), obj_data)
            /\ UNCHANGED docs
       ELSE LET old == {d \in docs : d._id = id}
                new == IF old = {} THEN obj_data @@ [_id |-> id]
                       ELSE obj_data @@ (CHOOSE d \in old : TRUE)
            IN  /\ docs' = (docs \ old) \cup {new}
                /\ last' = Noted(Outcome("update", <<"document", id>>,
                                   IF f = "ok" THEN PyDict(new) ELSE None, f # "ok"), obj_data)
    /\ UNCHANGED <<cacheVars, rows, id_seq, oid_seq, repository>>

\* MongoDBBaseRepository.update: $set of obj_data on the document with this
\* _id; the server refuses a $set that would change _id
DocUpdate(id, obj_data, f) ==
    /\ repository = "document"
    /\ created' = Forget("document", id)
    /\ IF \/ f = "down"
          \/ ~\E d \in docs : d._id = id
          \/ ("_id" \in DOMAIN obj_data /\ obj_data._id # id)
       THEN /\ last' = Noted(Outcome("update", <<"document", id>>, None, f # "ok"), obj_data)
            /\ UNCHANGED docs
       ELSE LET old == CHOOSE d \in docs : d._id = id
                new == obj_data @@ old
            IN  /\ docs' = (docs \ {old}) \cup {new}
                /\ last' = Noted(Outcome("update", <<"document", id>>,
                                   IF f = "ok" THEN PyDict(new) ELSE None, f # "ok"), obj_data)
    /\ UNCHANGED <<cacheVars, rows, id_seq, oid_seq, repository>>

\* MongoDBBaseRepository.delete
DocDelete(id, f) ==
    /\ repository = "document"
    /\ created' = Forget("document", id)
    /\ docs' = IF f = "down" THEN docs ELSE {d \in docs : d._id # id}
    /\ last' = Noted(Outcome("delete", <<"document", id>>,
                       PyBool(f = "ok" /\ \E d \in docs : d._id = id), f # "ok"), <<>>)
    /\ UNCHANGED <<cacheVars, rows, id_seq, oid_seq, repository>>

\* filters of get_multi, and its skip
RowFilters == {<<>>, [role |-> "operator"], [bogus |-> "x"]}
DocFilters == {<<>>, [bin_id |-> "a"], [bogus |-> "x"]}
Skips == 0 .. MaxLimit

\* the orders in which a query without ORDER BY / sort may return records
Orders(records) ==
    {o \in [1 .. Cardinality(records) -> records] : {o[i] : i \in DOMAIN o} = records}

\* ".offset(skip).limit(limit)" / ".skip(skip).limit(limit)" on a result
Page(result, skip, limit) ==
    SubSeq(result, skip + 1, IF skip + limit < Len(result) THEN skip + limit ELSE Len(result))

\* "if hasattr(self.model, key): query = query.where(getattr(self.model, key) == value)"
RowWhere(filters) ==
    {r \in rows : \A key \in DOMAIN filters \cap Columns : r[key] = filters[key]}

\* "self.collection.find(query)": a document matches when it has every
\* field of the query with the value given
DocFind(query) ==
    {doc \in docs : \A key \in DOMAIN query : key \in DOMAIN doc /\ doc[key] = query[key]}

\* history: the call's filters and, when the call directly before was the
\* same query at skip 0 and this one is at skip = limit, that first page
ManyOutcome(repo, skip, limit, filters, items, f) ==
    LET paired == /\ skip = limit
                  /\ last.op = "get_multi"
                  /\ ~last.failed
                  /\ last.arg = <<repo, 0, limit>>
                  /\ last.note.filters = filters
    IN  [Outcome("get_multi", <<repo, skip, limit>>, PyList(items), f # "ok") EXCEPT
            !.note = [filters |-> filters, paired |-> paired,
                      first |-> IF paired THEN last.val[2] ELSE <<>>]]

\* BaseRepository.get_multi
RowGetMulti(skip, limit, filters, f) ==
    /\ repository = "relational"
    /\ \E result \in Orders(RowWhere(filters)) :
           last' = ManyOutcome("relational", skip, limit, filters,
                               IF f = "ok" THEN Page(result, skip, limit) ELSE <<>>, f)
    /\ UNCHANGED <<cacheVars, repoVars>>

\* MongoDBBaseRepository.get_multi, called without sort
DocGetMulti(skip, limit, filters, f) ==
    /\ repository = "document"
    /\ \E result \in Orders(DocFind(filters)) :
           last' = ManyOutcome("document", skip, limit, filters,
                               IF f = "ok" THEN Page(result, skip, limit) ELSE <<>>, f)
    /\ UNCHANGED <<cacheVars, repoVars>>

-----------------------------------------------------------------------------
(* Specifications *)

\* Redis.from_url(settings.redis_url): the default URL sets no decode_responses
InitDefault ==
    /\ store = NoEntries
    /\ decode_responses = FALSE
    /\ call = [p \in Procs |-> Idle]
    /\ last = NoOutcome
    /\ win = [k \in CounterKeys |-> NoWindow]
    /\ returned = [k \in CounterKeys |-> {}]
    /\ dupReturn = FALSE
    /\ ttlSets = [k \in CounterKeys |-> 0]
    /\ written = [e \in BinIds |-> Unwritten]
    /\ InitRepositories

\* one caller at a time, backend healthy
NextSeq ==
    \/ \E k \in RateKeys, w \in Windows : IncrCall("p1", k, w, "ok")
    \/ ExpireStep("p1", "ok")
    \/ Tick

SpecSeq == InitDefault /\ [][NextSeq]_vars

\* concurrent callers of the rate limiter, backend failures, abandoned calls
NextRate ==
    \/ \E p \in Procs, k \in HotKeys, w \in Windows, f \in Faults : IncrCall(p, k, w, f)
    \/ \E p \in Procs, f \in Faults : ExpireStep(p, f)
    \/ \E p \in Procs : Abandon(p)
    \/ Tick

SpecRate == InitDefault /\ [][NextRate]_vars

\* every method of the service, one caller at a time, a backend failure
\* possible at every command
NextCache ==
    \/ \E p \in Solo, f \in Faults, b \in PlainIds, v \in OneVal :
           cache_bin_status(p, b, v, f)
    \/ \E p \in Solo, f \in Faults, b \in PlainIds : get_cached_bin_status(p, b, f)
    \/ \E p \in Solo, f \in Faults, t \in Topics, v \in OneVal :
           cache_mqtt_message(p, t, v, f)
    \/ \E p \in Solo, f \in Faults, b \in PlainIds, n \in Limits : RecentCall(p, b, n, f)
    \/ \E p \in Solo, f \in Faults : \E k \in call[p].keys : RecentGet(p, k, f)
    \/ \E p \in Solo, f \in Faults, t \in DataTypes, v \in OneVal :
           cache_analytics_data(p, t, v, f)
    \/ \E p \in Solo, f \in Faults, t \in DataTypes : get_cached_analytics(p, t, f)
    \/ \E p \in Solo, f \in Faults, b \in PlainIds, v \in OneVal :
           cache_detection_results(p, b, v, f)
    \/ \E p \in Solo, f \in Faults, b \in PlainIds : get_cached_detection(p, b, f)
    \/ \E p \in Solo, f \in Faults, k \in HotKeys : IncrCall(p, k, DEFAULT_WINDOW, f)
    \/ \E p \in Solo, f \in Faults : ExpireStep(p, f)
    \/ \E p \in Solo, f \in Faults, b \in PlainIds : ClearCall(p, b, f)
    \/ \E p \in Solo, f \in Faults : ClearKeys(p, f)
    \/ \E p \in Solo, f \in Faults : ClearDelete(p, f)
    \/ \E p \in Solo, f \in Faults : CriticalCall(p, f)
    \/ \E p \in Solo, f \in Faults : \E k \in call[p].keys : CriticalGet(p, k, f)
    \/ \E p \in Solo, f \in Faults, c \in ConnectionIds, u \in UserIds :
           set_websocket_connection(p, c, u, f)
    \/ \E p \in Solo, f \in Faults, c \in ConnectionIds :
           remove_websocket_connection(p, c, f)

SpecCache == InitDefault /\ [][NextCache]_vars

\* status caching: concurrent writers, readers and invalidation, backend
\* failures, expiry
NextStatus ==
    \/ \E p \in Procs, f \in Faults, b \in StatusIds, v \in StatusVals :
           cache_bin_status(p, b, v, f)
    \/ \E p \in Procs, f \in Faults, b \in StatusIds : get_cached_bin_status(p, b, f)
    \/ \E p \in Procs, f \in Faults, b \in ClearIds : ClearCall(p, b, f)
    \/ \E p \in Procs, f \in Faults : ClearKeys(p, f)
    \/ \E p \in Procs, f \in Faults : ClearDelete(p, f)
    \/ Tick

SpecStatus == InitDefault /\ [][NextStatus]_vars

\* the client is injected: it may have been built with decode_responses=True
Init ==
    /\ store = NoEntries
    /\ decode_responses \in BOOLEAN
    /\ call = [p \in Procs |-> Idle]
    /\ last = NoOutcome
    /\ win = [k \in CounterKeys |-> NoWindow]
    /\ returned = [k \in CounterKeys |-> {}]
    /\ dupReturn = FALSE
    /\ ttlSets = [k \in CounterKeys |-> 0]
    /\ written = [e \in BinIds |-> Unwritten]
    /\ InitRepositories

\* the per-bin caches with their scans: one caller invalidates or scans
\* for critical bins while others write status, detection and message
\* entries; backend failures at every command
Next ==
    \/ \E p \in Procs, f \in Faults, b \in ScanIds, v \in OneVal :
           cache_bin_status(p, b, v, f)
    \/ \E p \in Procs, f \in Faults, b \in PlainIds, v \in OneVal :
           cache_detection_results(p, b, v, f)
    \/ \E p \in Procs, f \in Faults, t \in Topics, v \in OneVal :
           cache_mqtt_message(p, t, v, f)
    \/ \E p \in Solo, f \in Faults, b \in ScanIds : ClearCall(p, b, f)
    \/ \E p \in Solo, f \in Faults : ClearKeys(p, f)
    \/ \E p \in Solo, f \in Faults : ClearDelete(p, f)
    \/ \E p \in Solo, f \in Faults : CriticalCall(p, f)
    \/ \E p \in Solo, f \in Faults : \E k \in call[p].keys : CriticalGet(p, k, f)

Spec == Init /\ [][Next]_vars

\* the two repositories: creates, reads, updates and deletes by id, with
\* backend failures
NextRepo ==
    \/ \E obj_data \in RowInputs, f \in Faults : RowCreate(obj_data, f)
    \/ \E id \in RowIds, f \in Faults : RowGetById(id, f)
    \/ \E id \in RowIds, obj_data \in RowChanges, f \in Faults : RowUpdate(id, obj_data, f)
    \/ \E id \in RowIds, f \in Faults : RowDelete(id, f)
    \/ \E obj_data \in DocInputs, f \in Faults : DocCreate(obj_data, f)
    \/ \E id \in DocIds, f \in Faults : DocGetById(id, f)
    \/ \E id \in DocIds, obj_data \in DocChanges, f \in Faults : DocUpdate(id, obj_data, f)
    \/ \E id \in DocIds, f \in Faults : DocDelete(id, f)

SpecRepo == InitRepo /\ [][NextRepo]_vars

\* the rate limiter, called with a key of another purpose, beside the status and detection caches
NextPurpose ==
    \/ \E p \in Solo, f \in Faults, k \in ForeignKeys : IncrCall(p, k, DEFAULT_WINDOW, f)
    \/ \E p \in Solo, f \in Faults : ExpireStep(p, f)
    \/ \E p \in Solo, f \in Faults, b \in PlainIds, v \in OneVal :
           cache_bin_status(p, b, v, f)
    \/ \E p \in Solo, f \in Faults, b \in PlainIds : get_cached_bin_status(p, b, f)
    \/ \E p \in Solo, f \in Faults, b \in PlainIds, v \in OneVal :
           cache_detection_results(p, b, v, f)
    \/ \E p \in Solo, f \in Faults, b \in PlainIds : get_cached_detection(p, b, f)

SpecPurpose == InitDefault /\ [][NextPurpose]_vars

\* messages of two bins are cached and expire; their recent messages are read
NextRecent ==
    \/ \E p \in Solo, f \in Faults, t \in BinTopics, v \in StatusVals :
           cache_mqtt_message(p, t, v, f)
    \/ \E p \in Solo, f \in Faults, b \in RecentIds, n \in Limits : RecentCall(p, b, n, f)
    \/ \E p \in Solo, f \in Faults : \E k \in call[p].keys : RecentGet(p, k, f)
    \/ Tick

SpecRecent == InitDefault /\ [][NextRecent]_vars

\* reads and scans over keys of which some hold text that is not JSON
ForeignKeySet ==
    {StatusKey(<<"b">>), DetectionKey(<<"a">>), AnalyticsKey(<<"d">>),
     MessageKey(<<"waste_bins", "/", "a", "/", "y">>)}

NextForeign ==
    \/ \E k \in ForeignKeySet : ForeignWrite(k)
    \/ \E p \in Solo, f \in Faults, b \in PlainIds, v \in OneVal :
           cache_bin_status(p, b, v, f)
    \/ \E p \in Solo, f \in Faults, t \in Topics, v \in OneVal :
           cache_mqtt_message(p, t, v, f)
    \/ \E p \in Solo, f \in Faults, b \in TwoBins : get_cached_bin_status(p, b, f)
    \/ \E p \in Solo, f \in Faults, b \in PlainIds : get_cached_detection(p, b, f)
    \/ \E p \in Solo, f \in Faults, t \in DataTypes : get_cached_analytics(p, t, f)
    \/ \E p \in Solo, f \in Faults, b \in PlainIds, n \in Limits : RecentCall(p, b, n, f)
    \/ \E p \in Solo, f \in Faults : \E k \in call[p].keys : RecentGet(p, k, f)
    \/ \E p \in Solo, f \in Faults : CriticalCall(p, f)
    \/ \E p \in Solo, f \in Faults : \E k \in call[p].keys : CriticalGet(p, k, f)

SpecForeign == Init /\ [][NextForeign]_vars

\* the five writers of the cache, with backend failures, while time passes
NextWrites ==
    \/ \E p \in Procs, f \in Faults, b \in PlainIds, v \in OneVal :
           cache_bin_status(p, b, v, f)
    \/ \E p \in Procs, f \in Faults, t \in Topics, v \in OneVal :
           cache_mqtt_message(p, t, v, f)
    \/ \E p \in Procs, f \in Faults, t \in DataTypes, v \in OneVal :
           cache_analytics_data(p, t, v, f)
    \/ \E p \in Procs, f \in Faults, b \in PlainIds, v \in OneVal :
           cache_detection_results(p, b, v, f)
    \/ \E p \in Procs, f \in Faults, c \in ConnectionIds, u \in UserIds :
           set_websocket_connection(p, c, u, f)
    \/ Tick

\* Redis runs its expiry whatever the callers do
SpecWrites == InitDefault /\ [][NextWrites]_vars /\ WF_vars(Tick)

\* one caller caches statuses and scans for critical bins; meanwhile another
\* caller invalidates bins and entries expire
NextRace ==
    \/ \E p \in Solo, f \in Faults, b \in TwoBins, v \in OneVal :
           cache_bin_status(p, b, v, f)
    \/ \E p \in Solo, f \in Faults : CriticalCall(p, f)
    \/ \E p \in Solo, f \in Faults : \E k \in call[p].keys : CriticalGet(p, k, f)
    \/ \E p \in Procs \ Solo, f \in Faults, b \in TwoBins : ClearCall(p, b, f)
    \/ \E p \in Procs \ Solo, f \in Faults : ClearKeys(p, f)
    \/ \E p \in Procs \ Solo, f \in Faults : ClearDelete(p, f)
    \/ Tick

SpecRace == Init /\ [][NextRace]_vars

\* every purpose has entries, the status cache of two bins, and one caller
\* invalidates a bin
NextClear ==
    \/ \E p \in Solo, f \in Faults, b \in TwoBins, v \in OneVal :
           cache_bin_status(p, b, v, f)
    \/ \E p \in Solo, f \in Faults, b \in PlainIds, v \in OneVal :
           cache_detection_results(p, b, v, f)
    \/ \E p \in Solo, f \in Faults, t \in Topics, v \in OneVal :
           cache_mqtt_message(p, t, v, f)
    \/ \E p \in Solo, f \in Faults, t \in DataTypes, v \in OneVal :
           cache_analytics_data(p, t, v, f)
    \/ \E p \in Solo, f \in Faults, c \in ConnectionIds, u \in UserIds :
           set_websocket_connection(p, c, u, f)
    \/ \E p \in Solo, f \in Faults, k \in HotKeys : IncrCall(p, k, DEFAULT_WINDOW, f)
    \/ \E p \in Solo, f \in Faults : ExpireStep(p, f)
    \/ \E p \in Solo, f \in Faults, b \in ClearIds : ClearCall(p, b, f)
    \/ \E p \in Solo, f \in Faults : ClearKeys(p, f)
    \/ \E p \in Solo, f \in Faults : ClearDelete(p, f)

SpecClear == InitDefault /\ [][NextClear]_vars

\* connection tracking: connections of one user come, go and expire
NextConn ==
    \/ \E p \in Procs, c \in Connections, u \in UserIds, f \in Faults :
           set_websocket_connection(p, c, u, f)
    \/ \E p \in Procs, c \in Connections, f \in Faults :
           remove_websocket_connection(p, c, f)
    \/ Tick

SpecConn == InitDefault /\ [][NextConn]_vars

\* pages of get_multi over the records the creates leave
NextMany ==
    \/ \E obj_data \in RowInputs, f \in Faults : RowCreate(obj_data, f)
    \/ \E obj_data \in DocInputs, f \in Faults : DocCreate(obj_data, f)
    \/ \E skip \in Skips, limit \in Limits, filters \in RowFilters, f \in Faults :
           RowGetMulti(skip, limit, filters, f)
    \/ \E skip \in Skips, limit \in Limits, filters \in DocFilters, f \in Faults :
           DocGetMulti(skip, limit, filters, f)

SpecMany == InitRepo /\ [][NextMany]_vars

-----------------------------------------------------------------------------
(* Rate limiting *)

InFlightOn(k) == \E p \in Procs : call[p].op = "increment_rate_limit" /\ call[p].key = k

\* C1: with one caller at a time and a healthy backend, a call returns 1 when
\* it opens a window (first call on the key, or first call made W seconds or
\* more after the window began) and otherwise one more than the previous
\* call of the window: 1, 2, ..., N in order.  The expected value comes from
\* the caller-side clock, not from the store.
C1_SuccessiveCounts ==
    (last.op = "increment_rate_limit" /\ last.kind = "return")
        => last.val = PyInt(last.expect)

\* a second window of some key has been opened and counted up to 2
C1_Witness ==
    /\ last.op = "increment_rate_limit"
    /\ last.val = PyInt(2)
    /\ win[last.arg].gen = 2

C3_TTLSetExactlyOnce ==
    \A k \in RateKeys :
        (k \in DOMAIN store /\ ~InFlightOn(k)) => ttlSets[k] = 1

\* C4: a counter key that exists has a TTL (checked when no call on
\* the key is between its two steps, so that a write in progress is not
\* counted against the claim)
C4_CounterHasTTL ==
    \A k \in RateKeys :
        (k \in DOMAIN store /\ ~InFlightOn(k)) => store[k].vol

-----------------------------------------------------------------------------
(* Failure handling of the cache overlay *)

\* the value the overlay hands back in place of a result
MissValue(op) ==
    CASE op \in {"get_recent_mqtt_messages", "get_all_critical_bins"} -> PyList(<<>>)
      [] op = "increment_rate_limit" -> PyInt(0)
      [] OTHER -> None

\* C5: no method of the cache overlay lets an error reach its caller; a call
\* during which a backend command failed returns normally, with the miss
\* value of its method (None, the empty list, 0)
C5_FailuresAbsorbed ==
    /\ last.kind # "raise"
    /\ last.failed => (last.kind = "return" /\ last.val = MissValue(last.op))

\* clear_bin_cache deleted keys of one pattern, then a later command failed
C5_Witness ==
    /\ last.op = "clear_bin_cache"
    /\ last.failed
    /\ last.changed

-----------------------------------------------------------------------------
(* Status cache *)

\* every field of v is a JSON value
JsonCompatible(v) == \A f \in DOMAIN v : v[f][1] \in {"int", "str"}

\* C6: while the JSON status written last for e is younger than the TTL, and
\* no cache_bin_status(e, .) or clear_bin_cache(e) ran since,
\* get_cached_bin_status(e) returns the value that was written; once the
\* TTL has elapsed it returns None
C6_ReadsBackWritten ==
    \A e \in BinIds :
        (written[e].set /\ JsonCompatible(written[e].v)) =>
            CachedValue(store, StatusKey(e)) =
                (IF written[e].age < default_ttl THEN PyDict(written[e].v) ELSE None)

-----------------------------------------------------------------------------
(* Scans *)

Undisturbed == last.kind = "return" /\ ~last.failed /\ last.clean

\* C7: a critical-bin scan that no failure and no concurrent
\* change disturbed returns exactly the identifiers of the bins whose cached
\* status has a fill level above the threshold
C7_CriticalExact ==
    (last.op = "get_all_critical_bins" /\ Undisturbed)
        => {last.val[2][i] : i \in 1 .. Len(last.val[2])} = last.note

\* C8: after an undisturbed clear_bin_cache(e) none of the status
\* key, the detection key and the message keys of e is left
C8_ClearLeavesNothing ==
    (last.op = "clear_bin_cache" /\ Undisturbed) => last.note = {}

\* C9: an undisturbed clear_bin_cache(e) on a bin that had no
\* cached status, detection or message key leaves the key space unchanged
C9_ClearNoDataNoChange ==
    (last.op = "clear_bin_cache" /\ Undisturbed /\ ~last.hadData) => ~last.changed

-----------------------------------------------------------------------------
(* Repositories *)

Agrees(val, obj_data) ==
    /\ val # None
    /\ \A c \in DOMAIN obj_data : c \in DOMAIN val[2] /\ val[2][c] = obj_data[c]

\* C10: in both repositories, as long as no update or delete of the id a
\* create returned was called, get_by_id on that id (backend healthy) returns
\* a record that has, on every field the create was given, the value given
C10_CreateReadsBack ==
    /\ \A id \in DOMAIN created.relational :
           Agrees(SelectById(rows, id), created.relational[id])
    /\ \A id \in DOMAIN created.document :
           Agrees(FindOne(docs, id), created.document[id])
    /\ (last.op = "get_by_id" /\ ~last.failed /\ last.arg[2] \in DOMAIN created[last.arg[1]])
           => Agrees(last.val, created[last.arg[1]][last.arg[2]])

\* get_by_id reads back a create that overrode a column default, with another
\* row beside it
C10_Witness ==
    /\ last.op = "get_by_id"
    /\ ~last.failed
    /\ last.arg[1] = "relational"
    /\ last.arg[2] \in DOMAIN created.relational
    /\ "role" \in DOMAIN created.relational[last.arg[2]]
    /\ Cardinality(rows) = 2

\* the records of the repository, their keys, and get_by_id on a healthy backend
Records == IF repository = "relational" THEN rows ELSE docs
KeyOf(r) == IF repository = "relational" THEN r.id ELSE r._id
Keys(records) == {KeyOf(r) : r \in records}
GetById(id) == IF repository = "relational" THEN SelectById(rows, id) ELSE FindOne(docs, id)
Others_than(records, id) == {r \in records : KeyOf(r) # id}

\* C11: after update(id, obj_data) returned a record, get_by_id(id) shows the
\* value given for every field of obj_data and, for every other field, the
\* value it had before the call; every record with another id is as before
C11_PartialUpdate ==
    (last.op = "update" /\ last.kind = "return" /\ last.val # None) =>
        LET id == last.arg[2]
            obj_data == last.note.obj_data
            old == CHOOSE r \in last.note.before : KeyOf(r) = id
            got == GetById(id)
        IN  /\ got # None
            /\ \A c \in DOMAIN obj_data : got[2][c] = obj_data[c]
            /\ \A c \in DOMAIN old \ DOMAIN obj_data : got[2][c] = old[c]
            /\ Others_than(Records, id) = Others_than(last.note.before, id)

\* C12: update(id, obj_data), whatever obj_data names, leaves the set of
\* keys in the store as it was, so the record with key id still has key id
C12_KeyStable ==
    last.op = "update" => Keys(Records) = Keys(last.note.before)

\* C13: delete(id) returns True exactly when a record with that id existed
\* and this call removed it
C13_DeleteTruth ==
    last.op = "delete" =>
        /\ last.kind = "return"
        /\ last.val = PyBool(/\ last.arg[2] \in Keys(last.note.before)
                             /\ last.arg[2] \notin Keys(Records))

\* C15: an update or delete that hits a backend failure raises, and update
\* returns None, delete returns False, only when the id did not exist
C15_WriteFailureRaises ==
    last.op \in {"update", "delete"} =>
        /\ last.failed => last.kind = "raise"
        /\ (last.kind = "return" /\ last.val \in {None, PyBool(FALSE)})
               => last.arg[2] \notin Keys(last.note.before)

\* C16: a relational create that raises leaves the table as it was before
\* the call
C16_FailedCreateNoRow ==
    (last.op = "create" /\ last.arg[1] = "relational" /\ last.kind = "raise")
        => rows = last.note.before

\* C17: relational get_by_id returns None only when no row has the id, and
\* raises when the backend fails
C17_AbsentOnlyWhenMissing ==
    (last.op = "get_by_id" /\ last.arg[1] = "relational") =>
        /\ last.failed => last.kind = "raise"
        /\ (last.kind = "return" /\ last.val = None) => last.arg[2] \notin Keys(rows)

\* a record has every field of the filters with the value given
Matches(r, filters) == \A key \in DOMAIN filters : key \in DOMAIN r /\ r[key] = filters[key]
Items(val) == {val[2][i] : i \in 1 .. Len(val[2])}

\* C14: with no write in between, get_multi returns at most limit records,
\* each matching every filter; the pages at skip 0 and skip = limit of one
\* query are disjoint and together hold the first 2 * limit matching records
C14_PagesOfMatches ==
    (last.op = "get_multi" /\ ~last.failed) =>
        LET limit == last.arg[3]
            matching == {r \in Records : Matches(r, last.note.filters)}
            first == {last.note.first[i] : i \in 1 .. Len(last.note.first)}
            both == first \cup Items(last.val)
        IN  /\ Len(last.val[2]) <= limit
            /\ \A r \in Items(last.val) : Matches(r, last.note.filters)
            /\ last.note.paired =>
                   /\ first \cap Items(last.val) = {}
                   /\ IF Cardinality(matching) <= 2 * limit THEN both = matching
                      ELSE both \subseteq matching /\ Cardinality(both) = 2 * limit

-----------------------------------------------------------------------------
(* Connection tracking *)

\* C18: a step that is not a set or remove of connection c leaves c's record
\* as it is: a set or remove of another connection changes neither its value
\* nor its remaining TTL, and while time passes (another record may expire)
\* c's record stays until its own TTL is up, with its TTL less only the time
\* passed; a set of c registers c with the full TTL
C18_ConnectionsIndependent ==
    [][\A c \in Connections :
          LET key == ConnectionKey(c)
              onC == /\ last'.op \in {"set_websocket_connection",
                                      "remove_websocket_connection"}
                     /\ last'.arg = c
          IN  /\ (key \in DOMAIN store /\ ~onC /\ last'.op # "none")
                     => (key \in DOMAIN store' /\ store'[key] = store[key])
              /\ (key \in DOMAIN store /\ last'.op = "none" /\ store[key].ttl > TickSeconds)
                     => /\ key \in DOMAIN store'
                        /\ store'[key] = [store[key] EXCEPT !.ttl = @ - TickSeconds]
              /\ (last'.op = "set_websocket_connection" /\ last'.arg = c /\ ~last'.failed)
                     => (key \in DOMAIN store' /\ store'[key].ttl = WS_TTL)]_vars

\* one connection of a user was removed while an older one of the same user,
\* part of its TTL gone, is still registered
C18_Witness ==
    /\ last.op = "remove_websocket_connection"
    /\ last.changed
    /\ ~last.failed
    /\ \E c \in Connections \ {last.arg} :
           /\ ConnectionKey(c) \in DOMAIN store
           /\ store[ConnectionKey(c)].ttl < WS_TTL

-----------------------------------------------------------------------------
(* Key purposes *)

\* C19: a step of increment_rate_limit, whatever key it was called with,
\* leaves what get_cached_bin_status and get_cached_detection return for
\* every bin as it was
C19_RateLimitLeavesCaches ==
    [][(\/ last'.op = "increment_rate_limit"
        \/ \E p \in Procs : call'[p].op = "increment_rate_limit")
          => \A e \in PlainIds :
                 /\ CachedValue(store', StatusKey(e)) = CachedValue(store, StatusKey(e))
                 /\ CachedValue(store', DetectionKey(e)) = CachedValue(store, DetectionKey(e))]_vars

-----------------------------------------------------------------------------
(* Recent messages *)

\* C20: an undisturbed get_recent_mqtt_messages(e, limit) returns at most
\* limit values, each of them the value now cached under a topic key below
\* e's topic prefix waste_bins/e/
C20_RecentOfEntity ==
    (last.op = "get_recent_mqtt_messages" /\ Undisturbed) =>
        /\ \A limit \in last.note : Len(last.val[2]) <= limit
        /\ \A i \in 1 .. Len(last.val[2]) :
               \E k \in DOMAIN store :
                   /\ IsPrefix(MessageKey(BinTopicPrefix(last.arg)), k)
                   /\ CachedValue(store, k) = last.val[2][i]

-----------------------------------------------------------------------------
(* Values that do not deserialize *)

\* the key a single-key read looks up
ReadKey(op, arg) ==
    CASE op = "get_cached_bin_status" -> StatusKey(arg)
      [] op = "get_cached_detection" -> DetectionKey(arg)
      [] OTHER -> AnalyticsKey(arg)

\* C21: a read of a key whose value is not JSON returns None without
\* raising; an undisturbed scan that meets such a value still returns what
\* the well-formed keys give: get_recent_mqtt_messages the messages of the
\* bin's other topics (when the limit covers the keys found),
\* get_all_critical_bins (on a client that decodes keys) the critical bins
C21_UndecodableIsMissForItsKey ==
    /\ (/\ last.op \in {"get_cached_bin_status", "get_cached_detection",
                        "get_cached_analytics"}
        /\ ~last.failed
        /\ ReadKey(last.op, last.arg) \in DOMAIN store
        /\ ~JsonDecodable(store[ReadKey(last.op, last.arg)].val))
           => (last.kind = "return" /\ last.val = None)
    /\ (last.op = "get_recent_mqtt_messages" /\ Undisturbed) =>
           LET found == RedisKeys(store, MessagePattern(last.arg))
               good == {k \in found : JsonDecodable(store[k].val)}
           IN  (\A limit \in last.note : Cardinality(found) <= limit)
                   => Items(last.val) = {json_loads(store[k].val) : k \in good}
    /\ (last.op = "get_all_critical_bins" /\ Undisturbed /\ decode_responses)
           => (CriticalTruth(store) \cap TwoBins) \subseteq Items(last.val)

-----------------------------------------------------------------------------
(* Expiry of what the writers write *)

\* the TTL of the namespace of key k
NamespaceTTL(k) ==
    CASE IsPrefix(<<"bin", ":", "status", ":">>, k) -> default_ttl
      [] IsPrefix(<<"mqtt", ":", "message", ":">>, k) -> MQTT_TTL
      [] IsPrefix(<<"analytics", ":">>, k) -> ANALYTICS_TTL
      [] IsPrefix(<<"detection", ":">>, k) -> DETECTION_TTL
      [] OTHER -> WS_TTL

Aged(k) == k \in DOMAIN store /\ store[k].ttl < NamespaceTTL(k)
Fresh(k) == k \in DOMAIN store /\ store[k].ttl = NamespaceTTL(k)

WrittenKeys ==
    {StatusKey(b) : b \in PlainIds} \cup {MessageKey(t) : t \in Topics}
        \cup {AnalyticsKey(t) : t \in DataTypes} \cup {DetectionKey(b) : b \in PlainIds}
        \cup {ConnectionKey(c) : c \in ConnectionIds}

\* C22: every key of the five writers has an expiry at all times, no longer
\* than the TTL of its namespace, and a write leaves its key with exactly
\* that TTL; an entry that is not written again goes away by expiry alone
C22_WrittenWithTTL ==
    /\ [](\A k \in DOMAIN store :
             /\ store[k].vol
             /\ store[k].ttl \in 1 .. NamespaceTTL(k))
    /\ [][\A k \in DOMAIN store' :
             (k \notin DOMAIN store \/ store'[k].val # store[k].val
                  \/ store'[k].ttl > store[k].ttl) => Fresh(k)']_vars
    /\ \A k \in WrittenKeys : Aged(k) ~> (k \notin DOMAIN store \/ Fresh(k))

\* entries of three namespaces side by side, the status entry part-way
\* through its TTL, a connection just registered
C22_Witness ==
    /\ last.op = "set_websocket_connection"
    /\ ~last.failed
    /\ \E b \in PlainIds : Aged(StatusKey(b))
    /\ \E t \in DataTypes : AnalyticsKey(t) \in DOMAIN store

-----------------------------------------------------------------------------
(* The critical scan against expiry and invalidation *)

\* C23: a critical scan during which status keys expired or were deleted
\* returns without an error, reports only bins that had a critical status,
\* and reports every bin whose critical status is still there
C23_ScanSurvivesRace ==
    (last.op = "get_all_critical_bins" /\ ~last.failed /\ ~last.clean)
        => /\ last.kind = "return"
           /\ Items(last.val) \subseteq TwoBins
           /\ (CriticalTruth(store) \cap TwoBins) \subseteq Items(last.val)

-----------------------------------------------------------------------------
(* What an invalidation leaves alone *)

\* caller p takes a step of clear_bin_cache(e)
ClearStepOf(p, e) ==
    \/ /\ call[p].op = "clear_bin_cache"
       /\ call[p].key = e
       /\ [call'[p] EXCEPT !.clean = call[p].clean] # call[p]
    \/ /\ call[p].op = "idle"
       /\ \/ call'[p].op = "clear_bin_cache" /\ call'[p].key = e
          \/ call'[p].op = "idle" /\ last'.op = "clear_bin_cache" /\ last'.arg = e

\* C24: a step of clear_bin_cache(e) leaves every key that is not a status,
\* detection or message key of e in the store, with its value and its
\* remaining TTL
C24_ClearOnlyItsEntity ==
    [][\A p \in Procs, e \in ClearIds :
          ClearStepOf(p, e)
              => \A k \in DOMAIN store \ EntityKeys(store, e) :
                     k \in DOMAIN store' /\ store'[k] = store[k]]_vars

-----------------------------------------------------------------------------
(* Update of a record that is not there *)

\* C25: update(id, obj_data) with an id that no record has returns None and
\* leaves the set of records as it was before the call, in the relational
\* and in the document repository, whatever the backend did
C25_UpdateNoUpsert ==
    (last.op = "update" /\ last.arg[2] \notin Keys(last.note.before))
        => /\ last.kind = "return"
           /\ last.val = None
           /\ Records = last.note.before

\* an update that reached the backend, for an id beside the ids in use
C25_Witness ==
    /\ last.op = "update"
    /\ ~last.failed
    /\ last.note.before # {}
    /\ last.arg[2] \notin Keys(last.note.before)
    /\ \A c \in DOMAIN last.note.obj_data : c \in {"role", "fill_level"}

====
